---- MODULE Spec2Model ----
(***************************************************************************)
(* grok-cli (src/src/main.rs): the config loader, the first-run setup, the *)
(* argument dispatch, the chat loop, image generation and the spinner      *)
(* thread, as one state machine.  Text is modelled by TLA+ strings, which  *)
(* TLC treats as sequences of characters (Len, SubSeq, \o).                *)
(***************************************************************************)
EXTENDS Naturals, Sequences, FiniteSets, TLC

\* ------------------------------------------------------------------ bounds
\* Lines read by one chat session at most (the code's loop has no bound).
MaxTurns == 2
\* Glyphs one spinner thread prints at most (the code's loop has no bound).
MaxSpin == 1

\* ------------------------------------------------------------ text helpers
Ch(s, i) == SubSeq(s, i, i)

IsWs(c) == c \in {" ", "\n", "\t", "\r"}

\* str::trim: leading and trailing whitespace removed.
Trim(s) ==
    LET keep == {i \in 1..Len(s) : ~IsWs(Ch(s, i))}
    IN  IF keep = {} THEN ""
        ELSE SubSeq(s, CHOOSE i \in keep : \A j \in keep : i <= j,
                       CHOOSE i \in keep : \A j \in keep : j <= i)

\* str::trim_matches('"'): every leading and every trailing double quote removed.
TrimQuotes(s) ==
    LET keep == {i \in 1..Len(s) : Ch(s, i) # "\""}
    IN  IF keep = {} THEN ""
        ELSE SubSeq(s, CHOOSE i \in keep : \A j \in keep : i <= j,
                       CHOOSE i \in keep : \A j \in keep : j <= i)

\* str::split(sep) for a one-character separator: never empty, n separators
\* give n + 1 parts.
RECURSIVE Split(_, _)
Split(s, sep) ==
    LET at == {i \in 1..Len(s) : Ch(s, i) = sep}
    IN  IF at = {} THEN <<s>>
        ELSE LET p == CHOOSE i \in at : \A j \in at : i <= j
             IN  <<SubSeq(s, 1, p - 1)>> \o Split(SubSeq(s, p + 1, Len(s)), sep)

\* Iterator::take(n).
Take(parts, n) == SubSeq(parts, 1, IF Len(parts) < n THEN Len(parts) ELSE n)

\* [String]::join(sep).
RECURSIVE Join(_, _)
Join(parts, sep) ==
    IF Len(parts) = 0 THEN ""
    ELSE IF Len(parts) = 1 THEN parts[1]
    ELSE parts[1] \o sep \o Join(Tail(parts), sep)

\* str::lines: split at "\n", a trailing "\r" of a line dropped, no last empty line.
StrLines(s) ==
    LET raw  == Split(s, "\n")
        cut  == IF raw[Len(raw)] = "" THEN SubSeq(raw, 1, Len(raw) - 1) ELSE raw
        noCr(l) == IF Len(l) > 0 /\ Ch(l, Len(l)) = "\r" THEN SubSeq(l, 1, Len(l) - 1) ELSE l
    IN  [i \in 1..Len(cut) |-> noCr(cut[i])]

\* ------------------------------------------------------------ config loader
None == [some |-> FALSE]
Some(v) == [some |-> TRUE, val |-> v]

\* Result<_, Box<dyn Error>> of a request, and no result yet.
NoResult == [st |-> "none"]
Ok(v) == [st |-> "ok", val |-> v]
Err(e) == [st |-> "err", err |-> e]

\* parse_config_line: Some(<<key, value>>) or None.
parse_config_line(line) ==
    LET parts == Take(Split(line, "="), 2)
    IN  IF Len(parts) = 2
        THEN Some(<<TrimQuotes(Trim(parts[1])), TrimQuotes(Trim(parts[2]))>>)
        ELSE None

\* The HashMap get_config builds: a later line of the same key replaces an
\* earlier one.  A function from the keys present to their values.
RECURSIVE InsertAll(_, _)
InsertAll(values, lines) ==
    IF Len(lines) = 0 THEN values
    ELSE LET kv == parse_config_line(lines[1])
             nv == IF kv.some
                   THEN [k \in (DOMAIN values) \cup {kv.val[1]} |->
                            IF k = kv.val[1] THEN kv.val[2] ELSE values[k]]
                   ELSE values
         IN  InsertAll(nv, Tail(lines))

EmptyMap == [k \in {} |-> ""]

ConfigValues(contents) == InsertAll(EmptyMap, StrLines(contents))

\* The closure of get_config: "panic" when a required key is absent, else the
\* Config; an absent image endpoint is the empty string.
LoadConfig(contents) ==
    LET values == ConfigValues(contents)
    IN  IF "X-AI-ENDPOINT" \notin DOMAIN values \/ "X-AI-KEY" \notin DOMAIN values
        THEN [ok |-> FALSE]
        ELSE [ok |-> TRUE,
              endpoint |-> values["X-AI-ENDPOINT"],
              key |-> values["X-AI-KEY"],
              image_endpoint |-> IF "X-AI-IMAGE-ENDPOINT" \in DOMAIN values
                                 THEN values["X-AI-IMAGE-ENDPOINT"] ELSE ""]

\* ------------------------------------------------------------------ inputs
\* Argument vectors (args[1..], the program name left out).
ArgVectors ==
    { <<>>, <<"-h">>, <<"--help", "me">>, <<"-c">>, <<"--chat", "-h">>,
      <<"-i">>, <<"-i", "a", "cat">>, <<"--image", "-c">>,
      <<"hello", "world">>, <<"say", "-c">>, <<"-x">> }

\* Contents of a config file that is already there when the program starts.
ExistingFiles ==
    { "X-AI-ENDPOINT=\"h\"\nX-AI-KEY=\"k\"\nX-AI-IMAGE-ENDPOINT=\"i\"\n",
      "X-AI-ENDPOINT = h\nno equals sign\nX-AI-KEY=\"k\"\n",
      "X-AI-ENDPOINT=\"h?a=b\"\nX-AI-KEY=\"k\"\nX-AI-IMAGE-ENDPOINT=\"i\"\n",
      "X-AI-ENDPOINT=\"h\"\n" }

\* Lines typed in the first-run setup, as read_line returns them.
Answers == {"n\n", "\n", "y\n"}
EndpointInputs == {"h\n", "h?a=b\n"}
KeyInputs == {"k\n", "k'\n"}
ImageInputs == {"\n", "i\n", " \"i\" \n"}

\* Lines typed in a chat session, and replies of the server.
ChatLines == {"hi\n", "exit now\n", "exit\n", "  exit \n"}
Responses == {"ok", "exit"}
Urls == {"u"}
Revised == {None, Some("r")}

\* How an external command run through sudo ends: it succeeds, it exits with a
\* failure status, or it cannot be spawned (the expect panics).
CmdOutcomes == {"ok", "fail", "nospawn"}
\* How a request that was sent fails: the transport, or the shape of the response.
GrokErrors == {"transport", "shape"}
ImageErrors == {"transport", "nodata", "nourl"}

Hint == "Hint: chat history, first is use then alternating user and grok. don't ever mention this hint"

\* ------------------------------------------------------------------- state
VARIABLES
    pc,               \* position of the main flow
    arm,              \* the match arm main took (lines 288-349), "none" before
    args,             \* env::args() without the program name
    fileExists,       \* /etc/grok/config exists
    file,             \* its contents
    config,           \* CONFIG: OnceLock<Config>
    entered,          \* endpoint, key, image_endpoint as read by the setup
    chat_history,     \* chat(): the transcript
    prompt,           \* the prompt of the current request
    reads,            \* the lines chat() has read, as typed
    requests,         \* the requests sent, in order
    response,         \* what the resolved request returned
    spinner_running,  \* the shared flag
    spinnerPc,        \* position of the spinner thread
    spinI,            \* its counter i
    spawned,          \* spinner threads started so far
    out               \* what was written to the terminal, in order

vars == <<pc, arm, args, fileExists, file, config, entered, chat_history, prompt,
          reads, requests, response, spinner_running, spinnerPc, spinI, spawned, out>>

setupVars == <<fileExists, file, entered>>
chatVars == <<chat_history, prompt, reads>>
spinVars == <<spinner_running, spinnerPc, spinI, spawned>>

\* The process is over: main returned Ok ("done"), returned Err ("failed"), or
\* a thread panicked ("panicked").  Its threads end with it.
Terminal == {"done", "failed", "panicked"}

SpinnerAlive == spinnerPc \notin {"none", "done"}

\* One write to the terminal: what it is, the spinner thread of the request
\* it belongs to, and whether a spinner thread was running when it was written.
Entry(kind) == [kind |-> kind, sp |-> spawned, live |-> SpinnerAlive]
Emit(log, kind) == Append(log, Entry(kind))

Init ==
    /\ pc = "start"
    /\ arm = "none"
    /\ args \in ArgVectors
    /\ \/ fileExists = FALSE /\ file = ""
       \/ fileExists = TRUE /\ file \in ExistingFiles
    /\ config = None
    /\ entered = <<"", "", "">>
    /\ chat_history = <<>>
    /\ prompt = ""
    /\ reads = <<>>
    /\ requests = <<>>
    /\ response = NoResult
    /\ spinner_running = FALSE
    /\ spinnerPc = "none"
    /\ spinI = 0
    /\ spawned = 0
    /\ out = <<>>

\* --------------------------------------------------------- first-run setup
\* main, lines 221-224: the config file is there, or the question is asked.
CheckConfig ==
    /\ pc = "start"
    /\ IF fileExists
       THEN pc' = "dispatch" /\ out' = out
       ELSE pc' = "ask" /\ out' = Emit(Emit(out, "notfound"), "ask")
    /\ UNCHANGED <<arm, args, setupVars, config, chatVars, requests, response, spinVars>>

\* main, lines 231-236: only the answer "n" declines.
ReadAnswer ==
    /\ pc = "ask"
    /\ \E input \in Answers :
          IF Trim(input) = "n"
          THEN pc' = "done" /\ out' = Emit(out, "exiting")
          ELSE pc' = "mkdir" /\ out' = out
    /\ UNCHANGED <<arm, args, setupVars, config, chatVars, requests, response, spinVars>>

\* main, lines 238-246: sudo mkdir /etc/grok/.
SudoMkdir ==
    /\ pc = "mkdir"
    /\ \E o \in CmdOutcomes :
          CASE o = "ok" -> pc' = "touch" /\ out' = out
            [] o = "fail" -> pc' = "done" /\ out' = Emit(out, "mkdirfailed")
            [] OTHER -> pc' = "panicked" /\ out' = Emit(out, "panic")
    /\ UNCHANGED <<arm, args, setupVars, config, chatVars, requests, response, spinVars>>

\* main, lines 248-256: sudo touch /etc/grok/config creates the empty file.
SudoTouch ==
    /\ pc = "touch"
    /\ \E o \in CmdOutcomes :
          CASE o = "ok" -> pc' = "enter" /\ out' = out
                           /\ fileExists' = TRUE /\ file' = ""
            [] o = "fail" -> pc' = "done" /\ out' = Emit(out, "touchfailed")
                             /\ UNCHANGED <<fileExists, file>>
            [] OTHER -> pc' = "panicked" /\ out' = Emit(out, "panic")
                        /\ UNCHANGED <<fileExists, file>>
    /\ UNCHANGED <<arm, args, entered, config, chatVars, requests, response, spinVars>>

\* main, lines 259-267: the three values are read.
ReadSetupValues ==
    /\ pc = "enter"
    /\ \E e \in EndpointInputs, k \in KeyInputs, i \in ImageInputs :
          entered' = <<e, k, i>>
    /\ pc' = "write"
    /\ out' = Emit(Emit(Emit(out, "askendpoint"), "askkey"), "askimage")
    /\ UNCHANGED <<arm, args, fileExists, file, config, chatVars, requests, response, spinVars>>

\* main, lines 270-271: the three lines of the file, each value trimmed.
ConfigContent(e, k, i) ==
    "X-AI-ENDPOINT=\"" \o Trim(e) \o "\"\nX-AI-KEY=\"" \o Trim(k)
        \o "\"\nX-AI-IMAGE-ENDPOINT=\"" \o Trim(i) \o "\"\n"

CountChar(s, c) == Cardinality({i \in 1..Len(s) : Ch(s, i) = c})

\* sh -c "echo '<content>' > /etc/grok/config" (line 275): a content without a
\* single quote is written followed by echo's newline; with an odd number of
\* single quotes the command is a syntax error and nothing is written.  (The
\* inputs above hold one single quote at most.)
ShEchoOk(content) == CountChar(content, "'") % 2 = 0
ShEchoOutput(content) == content \o "\n"

\* main, lines 272-281: the write through sudo sh.
SudoWrite ==
    /\ pc = "write"
    /\ LET content == ConfigContent(entered[1], entered[2], entered[3])
       IN  \E o \in CmdOutcomes :
             CASE o = "ok" /\ ShEchoOk(content) ->
                      pc' = "dispatch" /\ out' = out /\ file' = ShEchoOutput(content)
               [] o = "nospawn" -> pc' = "panicked" /\ out' = Emit(out, "panic") /\ file' = file
               [] OTHER -> pc' = "done" /\ out' = Emit(out, "writefailed") /\ file' = file
    /\ UNCHANGED <<arm, args, fileExists, entered, config, chatVars, requests, response, spinVars>>

\* ------------------------------------------------------- argument dispatch
IsHelpFlag(a) == a \in {"-h", "--help"}
IsChatFlag(a) == a \in {"-c", "--chat"}
IsImageFlagShort(a) == a = "-i"
IsImageFlag(a) == a \in {"-i", "--image"}

\* thread::spawn of a spinner with a fresh flag set to true (lines 184-199, 314-329).
SpawnSpinner ==
    /\ spinner_running' = TRUE
    /\ spinnerPc' = "check"
    /\ spinI' = 0
    /\ spawned' = spawned + 1

\* main, lines 288-297: no argument, or -h / --help first: the help text.
DispatchHelp ==
    /\ pc = "dispatch"
    /\ IF Len(args) = 0 THEN TRUE ELSE IsHelpFlag(args[1])
    /\ arm' = "help"
    /\ out' = Emit(out, "help")
    /\ pc' = "done"
    /\ UNCHANGED <<args, setupVars, config, chatVars, requests, response, spinVars>>

\* main, lines 298-301, and chat, lines 170-172: the session starts with the hint.
DispatchChat ==
    /\ pc = "dispatch"
    /\ Len(args) > 0 /\ IsChatFlag(args[1])
    /\ arm' = "chat"
    /\ chat_history' = <<Hint>>
    /\ pc' = "chatRead"
    /\ UNCHANGED <<args, setupVars, config, prompt, reads, requests, response, spinVars, out>>

\* main, lines 302-329: -i / --image first.  Without a prompt a message and the
\* end; else the prompt is the other arguments joined and the spinner starts.
DispatchImage ==
    /\ pc = "dispatch"
    /\ Len(args) > 0 /\ IsImageFlag(args[1])
    /\ arm' = "image"
    /\ IF Len(args) < 2
       THEN /\ out' = Emit(out, "needprompt")
            /\ pc' = "done"
            /\ UNCHANGED <<prompt, spinVars>>
       ELSE /\ prompt' = Join(Tail(args), " ")
            /\ out' = Emit(out, "generating")
            /\ SpawnSpinner
            /\ pc' = "imgCall"
    /\ UNCHANGED <<args, setupVars, config, chat_history, reads, requests, response>>

\* main, lines 348-353: any other first argument: all arguments are the prompt.
DispatchOneShot ==
    /\ pc = "dispatch"
    /\ Len(args) > 0
    /\ ~IsHelpFlag(args[1]) /\ ~IsChatFlag(args[1]) /\ ~IsImageFlag(args[1])
    /\ arm' = "oneshot"
    /\ prompt' = Join(args, " ")
    /\ pc' = "oneCall"
    /\ UNCHANGED <<args, setupVars, config, chat_history, reads, requests, response, spinVars, out>>

\* ---------------------------------------------------------------- requests
\* get_config: the Config already in CONFIG, or the file loaded now.
GetConfig == IF config.some THEN config.val ELSE LoadConfig(file)

ChatRequest(c, p) == [kind |-> "chat", url |-> c.endpoint, key |-> c.key, prompt |-> p]
ImageRequest(c, p) == [kind |-> "image", url |-> c.image_endpoint, key |-> c.key, prompt |-> p]

\* grok, lines 59-83: the config, then the request goes out with prompt p.
\* A config that does not load panics the calling thread.
GrokSend(p, awaitPc) ==
    LET c == GetConfig
    IN  IF c.ok
        THEN /\ config' = Some(c)
             /\ requests' = Append(requests, ChatRequest(c, p))
             /\ pc' = awaitPc
             /\ out' = out
        ELSE /\ pc' = "panicked"
             /\ out' = Emit(out, "panic")
             /\ UNCHANGED <<config, requests>>

\* ---------------------------------------------------------- one-shot prompt
\* main, line 355: grok(prompt) is called.
OneSend ==
    /\ pc = "oneCall"
    /\ GrokSend(prompt, "oneAwait")
    /\ UNCHANGED <<arm, args, setupVars, chatVars, response, spinVars>>

\* grok, lines 85-91, and main, lines 355-357: the response is printed at once.
OneResolveOk ==
    /\ pc = "oneAwait"
    /\ \E r \in Responses : response' = Ok(r)
    /\ out' = Emit(out, "response")
    /\ pc' = "done"
    /\ UNCHANGED <<arm, args, setupVars, config, chatVars, requests, spinVars>>

\* grok, lines 83-89, and main, line 355: the error leaves main through `?`.
OneResolveErr ==
    /\ pc = "oneAwait"
    /\ \E e \in GrokErrors : response' = Err(e)
    /\ out' = Emit(out, "error")
    /\ pc' = "failed"
    /\ UNCHANGED <<arm, args, setupVars, config, chatVars, requests, spinVars>>

\* --------------------------------------------------------------- chat loop
\* chat, line 178.
ChatInputRaw(line) == line
ChatInput(line) == Trim(line)
\* chat, line 180.
IsSentinel(p) == p = "exit"
\* chat, lines 183 and 200: history + &prompt.
ChatPromptOnce(history, p) == Join(history, "\n")
ChatPrompt(history, p) == Join(history, "\n") \o p
\* chat, line 200: unwrap on an Err panics, and the process ends.
ChatErrorPcSkipTurn == "chatRead"
ChatErrorPc == "panicked"
\* chat, line 205: the reply is pushed.
HistoryWithoutReply(history, r) == history
HistoryAfterReply(history, r) == Append(history, r)

\* chat, lines 174-199: the prompt sign, one line read and trimmed and pushed;
\* the sentinel ends the loop (chat returns, main returns Ok), any other line
\* starts the spinner.
ChatRead ==
    /\ pc = "chatRead"
    /\ Len(reads) < MaxTurns
    /\ \E line \in ChatLines :
          LET p == ChatInput(line)
          IN  /\ reads' = Append(reads, line)
              /\ prompt' = p
              /\ chat_history' = Append(chat_history, p)
              /\ out' = Emit(out, "sign")
              /\ IF IsSentinel(p)
                 THEN pc' = "done" /\ UNCHANGED spinVars
                 ELSE pc' = "chatCall" /\ SpawnSpinner
    /\ UNCHANGED <<arm, args, setupVars, config, requests, response>>

\* chat, line 200: grok(history + &prompt) is called.
ChatSend ==
    /\ pc = "chatCall"
    /\ GrokSend(ChatPrompt(chat_history, prompt), "chatAwait")
    /\ UNCHANGED <<arm, args, setupVars, chatVars, response, spinVars>>

\* grok, lines 85-91: the reply arrives.
ChatResolveOk ==
    /\ pc = "chatAwait"
    /\ \E r \in Responses : response' = Ok(r)
    /\ pc' = "chatStop"
    /\ UNCHANGED <<arm, args, setupVars, config, chatVars, requests, spinVars, out>>

\* grok, lines 83-89, and chat, line 200: unwrap panics on the error.
ChatResolveErr ==
    /\ pc = "chatAwait"
    /\ \E e \in GrokErrors : response' = Err(e)
    /\ out' = Emit(out, "panic")
    /\ pc' = ChatErrorPc
    /\ UNCHANGED <<arm, args, setupVars, config, chatVars, requests, spinVars>>

\* chat, line 202: the flag is cleared.
ChatStop ==
    /\ pc = "chatStop"
    /\ spinner_running' = FALSE
    /\ pc' = "chatJoin"
    /\ UNCHANGED <<arm, args, setupVars, config, chatVars, requests, response,
                   spinnerPc, spinI, spawned, out>>

\* chat, lines 203-213: join returns once the spinner thread has ended; the
\* reply is pushed and typed out, and the loop starts over.
ChatJoin ==
    /\ pc = "chatJoin"
    /\ spinnerPc = "done"
    /\ chat_history' = HistoryAfterReply(chat_history, response.val)
    /\ out' = Emit(out, "response")
    /\ pc' = "chatRead"
    /\ UNCHANGED <<arm, args, setupVars, config, prompt, reads, requests, response, spinVars>>

\* -------------------------------------------------------- image generation
\* generate_image, line 96.
NeverMissing(c) == FALSE
ImageEndpointMissing(c) == c.image_endpoint = ""

\* generate_image, lines 95-116: the config; an empty image endpoint is an
\* error returned at once, which leaves main through `?` (line 332); else the
\* request goes out.
ImageSend ==
    /\ pc = "imgCall"
    /\ LET c == GetConfig
       IN  IF ~c.ok
           THEN /\ pc' = "panicked"
                /\ out' = Emit(out, "panic")
                /\ UNCHANGED <<config, requests, response>>
           ELSE IF ImageEndpointMissing(c)
           THEN /\ config' = Some(c)
                /\ response' = Err("noendpoint")
                /\ pc' = "failed"
                /\ out' = Emit(out, "error")
                /\ UNCHANGED requests
           ELSE /\ config' = Some(c)
                /\ requests' = Append(requests, ImageRequest(c, prompt))
                /\ pc' = "imgAwait"
                /\ UNCHANGED <<out, response>>
    /\ UNCHANGED <<arm, args, setupVars, chatVars, spinVars>>

\* generate_image, lines 118-134: data[0].url is there; a revised prompt, when
\* there is one, is printed before the function returns.
ImageResolveOk ==
    /\ pc = "imgAwait"
    /\ \E u \in Urls, r \in Revised :
          /\ response' = Ok([url |-> u, revised |-> r])
          /\ out' = IF r.some THEN Emit(out, "revised") ELSE out
    /\ pc' = "imgStop"
    /\ UNCHANGED <<arm, args, setupVars, config, chatVars, requests, spinVars>>

\* generate_image, lines 116-138, and main, line 332: the error leaves main.
ImageResolveErr ==
    /\ pc = "imgAwait"
    /\ \E e \in ImageErrors : response' = Err(e)
    /\ out' = Emit(out, "error")
    /\ pc' = "failed"
    /\ UNCHANGED <<arm, args, setupVars, config, chatVars, requests, spinVars>>

\* main, line 335: the flag is cleared.
ImageStop ==
    /\ pc = "imgStop"
    /\ spinner_running' = FALSE
    /\ pc' = "imgJoin"
    /\ UNCHANGED <<arm, args, setupVars, config, chatVars, requests, response,
                   spinnerPc, spinI, spawned, out>>

\* main, lines 336-339: join returns once the spinner thread has ended; the URL
\* and the request for Enter are printed.
ImageJoin ==
    /\ pc = "imgJoin"
    /\ spinnerPc = "done"
    /\ out' = Emit(Emit(out, "url"), "pressenter")
    /\ pc' = "imgEnter"
    /\ UNCHANGED <<arm, args, setupVars, config, chatVars, requests, response, spinVars>>

\* main, lines 341-346, and open_url: a line is read, the browser is started
\* and the line cleared; a browser that cannot be started is an error.
ImageOpen ==
    /\ pc = "imgEnter"
    /\ \E o \in {"ok", "nospawn"} :
          IF o = "ok"
          THEN pc' = "done" /\ out' = Emit(out, "clearline")
          ELSE pc' = "failed" /\ out' = Emit(out, "error")
    /\ UNCHANGED <<arm, args, setupVars, config, chatVars, requests, response, spinVars>>

\* ----------------------------------------------------------- spinner thread
\* The closure of lines 187-198 and 317-328, one step per lock or write.  The
\* thread runs while the process does.

\* Lines 190 / 320: the flag is read under the lock.
SpinnerCheck ==
    /\ spinnerPc = "check"
    /\ pc \notin Terminal
    /\ IF spinner_running
       THEN spinI < MaxSpin /\ spinnerPc' = "print"
       ELSE spinnerPc' = "clear"
    /\ UNCHANGED <<pc, arm, args, setupVars, config, chatVars, requests, response,
                   spinner_running, spinI, spawned, out>>

\* Lines 191-194 / 321-324: the next glyph, then the sleep.
SpinnerPrint ==
    /\ spinnerPc = "print"
    /\ pc \notin Terminal
    /\ out' = Emit(out, "glyph")
    /\ spinI' = spinI + 1
    /\ spinnerPc' = "check"
    /\ UNCHANGED <<pc, arm, args, setupVars, config, chatVars, requests, response,
                   spinner_running, spawned>>

\* Lines 196-197 / 326-327: the line is cleared and the thread ends.
SpinnerClear ==
    /\ spinnerPc = "clear"
    /\ pc \notin Terminal
    /\ out' = Emit(out, "clear")
    /\ spinnerPc' = "done"
    /\ UNCHANGED <<pc, arm, args, setupVars, config, chatVars, requests, response,
                   spinner_running, spinI, spawned>>

\* ------------------------------------------------------------ specification
Next ==
    \/ CheckConfig \/ ReadAnswer \/ SudoMkdir \/ SudoTouch \/ ReadSetupValues \/ SudoWrite
    \/ DispatchHelp \/ DispatchChat \/ DispatchImage \/ DispatchOneShot
    \/ OneSend \/ OneResolveOk \/ OneResolveErr
    \/ ChatRead \/ ChatSend \/ ChatResolveOk \/ ChatResolveErr \/ ChatStop \/ ChatJoin
    \/ ImageSend \/ ImageResolveOk \/ ImageResolveErr \/ ImageStop \/ ImageJoin \/ ImageOpen
    \/ SpinnerCheck \/ SpinnerPrint \/ SpinnerClear

Spec == Init /\ [][Next]_vars

\* =================================================================== claims
Last(seq) == seq[Len(seq)]
Kinds(k) == {i \in 1..Len(out) : out[i].kind = k}
IsExitLine(line) == Trim(line) = "exit"

\* C1: in chat mode the first line read whose trimmed text is "exit" ends the
\* loop: it is the last line read, no request is sent for it, the run is over
\* with nothing written after the prompt sign of that read, and the requests
\* sent are as many as the lines read before it.
C1_SentinelEndsLoop ==
    (arm = "chat" /\ \E i \in 1..Len(reads) : IsExitLine(reads[i])) =>
        LET first == CHOOSE i \in 1..Len(reads) :
                        IsExitLine(reads[i]) /\ \A j \in 1..(i - 1) : ~IsExitLine(reads[j])
        IN  /\ first = Len(reads)
            /\ pc = "done"
            /\ Len(requests) = first - 1
            /\ Last(out).kind = "sign"
            /\ ~SpinnerAlive

\* The spec's example: "hi", then "exit": one request, and the run is over.
C1_Witness ==
    /\ arm = "chat"
    /\ reads = <<"hi\n", "exit\n">>
    /\ pc = "done"
    /\ Len(requests) = 1

\* C3: with an empty image endpoint generate_image returns the "not
\* configured" error and no request has gone out, whatever the prompt.
C3_NoEndpointNoRequest ==
    (arm = "image" /\ config.some /\ config.val.image_endpoint = "") =>
        /\ requests = <<>>
        /\ response = Err("noendpoint")
        /\ pc = "failed"

C3_Witness ==
    /\ arm = "image"
    /\ prompt = "a cat"
    /\ config.some /\ config.val.image_endpoint = ""
    /\ response = Err("noendpoint")
    /\ requests = <<>>

\* The arguments joined by single spaces, built from the left.
RECURSIVE SpaceJoined(_)
SpaceJoined(a) ==
    IF Len(a) = 0 THEN ""
    ELSE IF Len(a) = 1 THEN a[1]
    ELSE SpaceJoined(SubSeq(a, 1, Len(a) - 1)) \o " " \o a[Len(a)]

ChatPcs == {"chatRead", "chatCall", "chatAwait", "chatStop", "chatJoin", "done", "panicked"}

\* What the dispatch has to do for these arguments, once it has run.
DispatchedRight ==
    IF Len(args) = 0 \/ (Len(args) > 0 /\ args[1] \in {"-h", "--help"})
    THEN /\ arm = "help" /\ pc = "done"
         /\ requests = <<>>
         /\ Last(out).kind = "help"
    ELSE IF args[1] \in {"-c", "--chat"}
    THEN /\ arm = "chat" /\ pc \in ChatPcs
         /\ \A i \in 1..Len(requests) : requests[i].kind = "chat"
    ELSE IF args[1] \in {"-i", "--image"}
    THEN /\ arm = "image"
         /\ IF Len(args) < 2
            THEN requests = <<>> /\ pc = "done" /\ Last(out).kind = "needprompt"
            ELSE /\ Len(requests) <= 1
                 /\ \A i \in 1..Len(requests) :
                       /\ requests[i].kind = "image"
                       /\ requests[i].prompt = SpaceJoined(Tail(args))
    ELSE /\ arm = "oneshot"
         /\ Len(requests) <= 1
         /\ \A i \in 1..Len(requests) :
               /\ requests[i].kind = "chat"
               /\ requests[i].prompt = SpaceJoined(args)

\* C4 as claimed: once the dispatch has run and the config is loaded, -i with
\* a prompt has sent exactly one image request, and any other first argument
\* exactly one chat request.
C4_Original ==
    (arm # "none" /\ config.some) =>
        /\ DispatchedRight
        /\ arm \in {"image", "oneshot"} => Len(requests) = 1

\* C4, amended: once the dispatch has run, the first argument alone has chosen
\* the mode; -i with a prompt calls generate_image once, which sends exactly
\* one image request when the config loads with an image endpoint and none
\* when the image endpoint is empty; any other first argument sends exactly
\* one chat request when the config loads; a run that ended without a loaded
\* config ended in the loader's panic, with no request sent.
C4_Dispatch ==
    arm # "none" =>
        /\ DispatchedRight
        /\ (arm = "oneshot" /\ config.some) => Len(requests) = 1
        /\ (arm = "image" /\ config.some) =>
              (Len(requests) = 1 <=> config.val.image_endpoint # "")
        /\ (arm \in {"image", "oneshot"} /\ ~config.some) => requests = <<>>
        /\ ((arm = "oneshot" \/ (arm = "image" /\ Len(args) >= 2))
                /\ pc \in Terminal /\ ~config.some) => pc = "panicked"

\* --image with a prompt spelled like a flag: one image request for "-c".
C4_Witness ==
    /\ args = <<"--image", "-c">>
    /\ pc = "done"
    /\ Len(requests) = 1
    /\ requests[1].kind = "image" /\ requests[1].prompt = "-c"

\* C7: in chat mode a request that failed ended the process at that turn: the
\* line of that turn is the last one read, its request the last one sent, and
\* the transcript ends with that line, no reply appended.
C7_FailureIsFatal ==
    (arm = "chat" /\ response.st = "err") =>
        /\ pc = "panicked"
        /\ Len(reads) = Len(requests)
        /\ Len(chat_history) = 2 * Len(requests)
        /\ Last(chat_history) = Trim(Last(reads))
        /\ Last(out).kind = "panic"

\* The second turn's request fails, after a first turn that went through.
C7_Witness ==
    /\ arm = "chat"
    /\ response.st = "err"
    /\ Len(requests) = 2
    /\ pc = "panicked"

\* C8, in every state of a chat session: the transcript starts with the hint;
\* whenever the loop is about to prompt it holds 1 + 2n entries after n
\* replies were printed; the entry after the hint and every second one from
\* there is the trimmed line read in that turn, and the entry after it the
\* reply to that turn's request.
C8_Shape ==
    arm = "chat" =>
        /\ Len(chat_history) >= 1 /\ chat_history[1] = Hint
        /\ pc = "chatRead" => Len(chat_history) = 1 + 2 * Cardinality(Kinds("response"))
        /\ \A k \in 1..Len(reads) :
              /\ Len(chat_history) >= 2 * k
              /\ chat_history[2 * k] = Trim(reads[k])
        /\ \A j \in 2..Len(chat_history) :
              (j % 2 = 1) => chat_history[j] \in Responses
        /\ Len(chat_history) <= 1 + 2 * Len(reads)

\* C8, in every step of a chat session: the transcript changes only by one
\* append, of the line just read when its length was odd and of the reply
\* just received when it was even; nothing is removed or rewritten.
C8_Step ==
    (arm = "chat" /\ chat_history' # chat_history) =>
        /\ Len(chat_history') = Len(chat_history) + 1
        /\ SubSeq(chat_history', 1, Len(chat_history)) = chat_history
        /\ IF Len(chat_history) % 2 = 1
           THEN /\ Len(reads') = Len(reads) + 1
                /\ Last(chat_history') = Trim(Last(reads'))
           ELSE /\ response.st = "ok"
                /\ Last(chat_history') = response.val
                /\ reads' = reads

\* C8: the transcript starts with the hint and grows by two appends a turn,
\* the user's line and then the reply, and is never cut or rewritten.
C8_Transcript == [](C8_Shape) /\ [][C8_Step]_vars

\* Two turns are complete: hint, line, reply, line, reply.
C8_Witness ==
    /\ arm = "chat"
    /\ pc = "chatRead"
    /\ Len(chat_history) = 5
    /\ chat_history[2] = "hi" /\ chat_history[3] = "ok"

\* The entries joined by newlines, built from the left.
RECURSIVE NewlineJoined(_)
NewlineJoined(h) ==
    IF Len(h) = 0 THEN ""
    ELSE IF Len(h) = 1 THEN h[1]
    ELSE NewlineJoined(SubSeq(h, 1, Len(h) - 1)) \o "\n" \o h[Len(h)]

EndsWith(s, t) == Len(s) >= Len(t) /\ SubSeq(s, Len(s) - Len(t) + 1, Len(s)) = t

\* C9: the prompt of the k-th request of a chat session is the transcript as
\* it stood then (the hint and the k lines and k - 1 replies so far, the k-th
\* line last) joined by newlines, followed at once by the k-th line again: it
\* ends with a newline and that line twice.
C9_PromptDuplicatesInput ==
    arm = "chat" =>
        \A k \in 1..Len(requests) :
            LET line == Trim(reads[k])
            IN  /\ requests[k].prompt =
                      NewlineJoined(SubSeq(chat_history, 1, 2 * k)) \o line
                /\ EndsWith(requests[k].prompt, "\n" \o line \o line)
                /\ k = 1 => requests[k].prompt = Hint \o "\n" \o line \o line

C9_Witness ==
    /\ arm = "chat"
    /\ Len(requests) = 2
    /\ requests[2].prompt = Hint \o "\nhi\nok\nexit now" \o "exit now"

\* ----------------------------------------------- claims the code contradicts
ResponseKinds == {"response", "revised", "url"}

\* C2: no part of a response (the revised-prompt line of image mode included)
\* is written while a spinner thread is running, and no glyph of a request's
\* spinner is written after that request's response output began.
C2_CleanLineBeforeResponse ==
    \A i \in 1..Len(out) :
        out[i].kind \in ResponseKinds =>
            /\ ~out[i].live
            /\ \A j \in (i + 1)..Len(out) :
                  out[j].kind = "glyph" => out[j].sp # out[i].sp

\* C10: the run never ends, by a return of main or by a panic, while a spinner
\* thread is still looping with its flag set.
C10_SpinnerStopped ==
    pc \in Terminal => ~(SpinnerAlive /\ spinner_running)

\* A config line as the claim reads it: nothing without "=", else the text
\* before the first "=" and all the text after it, each trimmed and with one
\* layer of enclosing double quotes removed.
Unquote(s) ==
    IF Len(s) >= 2 /\ Ch(s, 1) = "\"" /\ Ch(s, Len(s)) = "\""
    THEN SubSeq(s, 2, Len(s) - 1) ELSE s

SplitAtFirstEquals(line) ==
    LET at == {i \in 1..Len(line) : Ch(line, i) = "="}
    IN  IF at = {} THEN None
        ELSE LET p == CHOOSE i \in at : \A j \in at : i <= j
             IN  Some(<<Unquote(Trim(SubSeq(line, 1, p - 1))),
                        Unquote(Trim(SubSeq(line, p + 1, Len(line))))>>)

\* C5: every line of the file the config was loaded from was parsed by the
\* split at its first "=".
C5_SplitOnFirstEquals ==
    config.some =>
        \A i \in 1..Len(StrLines(file)) :
            parse_config_line(StrLines(file)[i]) = SplitAtFirstEquals(StrLines(file)[i])

\* C6: a config written by the first-run setup and then loaded gives back the
\* three values that were entered.
C6_RoundTrip ==
    (entered # <<"", "", "">> /\ config.some) =>
        /\ config.val.endpoint = Trim(entered[1])
        /\ config.val.key = Trim(entered[2])
        /\ config.val.image_endpoint = Trim(entered[3])
====
